---- MODULE Spec2Model ----
(***************************************************************************)
(* PyCRS element containers (pycrs/elements/containers.py): the CRS tree   *)
(* (Ellipsoid, Datum, GeogCS, Projection, ProjCS, CRS) and its three       *)
(* serializers to_proj4, to_ogc_wkt and to_esri_wkt.                        *)
(*                                                                         *)
(* Python strings are sequences of one-character strings, so that the      *)
(* serializers are modelled by the concatenations they perform and the     *)
(* properties can look inside the rendered text.                           *)
(***************************************************************************)
EXTENDS Integers, Sequences, FiniteSets, TLC

VARIABLES ellips, datum, geogcs, projcs, crs, ret, first, built, twin_given

vars == <<ellips, datum, geogcs, projcs, crs, ret, first, built, twin_given>>

(***************************************************************************)
(* Bounds.                                                                 *)
(***************************************************************************)
\* longest parameter list handed to ProjCS
MaxParams == 2

(***************************************************************************)
(* Python values and the conversions the code applies to them.             *)
(***************************************************************************)
None == [cls |-> "NoneType"]

PyInt(n) == [cls |-> "int", v |-> n]

\* a float written whole.frac, frac being its decimal digits
PyFloat(w, frac) == [cls |-> "float", w |-> w, frac |-> frac]

PyString(s) == [cls |-> "str", s |-> s]

\* the exception a call raises
Raise(exc) == [cls |-> exc]

DigitChar == <<"0", "1", "2", "3", "4", "5", "6", "7", "8", "9">>

RECURSIVE NatStr(_)
NatStr(n) ==
    IF n < 10 THEN <<DigitChar[n + 1]>>
    ELSE NatStr(n \div 10) \o <<DigitChar[(n % 10) + 1]>>

IntStr(n) == IF n < 0 THEN <<"-">> \o NatStr(0 - n) ELSE NatStr(n)

\* "%s" % v
PyStr(v) ==
    CASE v.cls = "NoneType" -> <<"N","o","n","e">>
      [] v.cls = "int" -> IntStr(v.v)
      [] v.cls = "float" -> IntStr(v.w) \o <<".">> \o [i \in 1..Len(v.frac) |-> DigitChar[v.frac[i] + 1]]
      [] v.cls = "str" -> v.s

\* v == None
PyEqNone(v) == v.cls = "NoneType"

\* the truth value of v in `if v:` and `not v`
PyTruthy(v) ==
    CASE v.cls = "NoneType" -> FALSE
      [] v.cls = "int" -> v.v # 0
      [] v.cls = "float" -> ~(v.w = 0 /\ \A i \in 1..Len(v.frac) : v.frac[i] = 0)
      [] v.cls = "str" -> Len(v.s) > 0
      [] OTHER -> TRUE

\* sep.join(parts)
RECURSIVE Join(_, _)
Join(sep, parts) ==
    IF Len(parts) = 0 THEN << >>
    ELSE IF Len(parts) = 1 THEN parts[1]
    ELSE parts[1] \o sep \o Join(sep, Tail(parts))

(***************************************************************************)
(* The catalog modules the containers import (directions, datums,          *)
(* ellipsoids) and the parameter objects they are handed: each entry       *)
(* exposes a PROJ identifier or none, an OGC and an ESRI identifier, and   *)
(* an ellipsoid its default axis and flattening.                           *)
(***************************************************************************)
ellipsoids_WGS84 ==
    [cls |-> "ellipsoids.WGS84", proj4 |-> PyString(<<"W","G","S","8","4">>),
     ogc_wkt |-> <<"W","G","S","_","1","9","8","4">>, esri_wkt |-> <<"W","G","S","_","1","9","8","4">>,
     semimaj_ax |-> PyInt(6378137),
     inv_flat |-> PyFloat(298, <<2, 5, 7, 2, 2, 3, 5, 6, 3>>)]

\* an entry PROJ has no identifier for
ellipsoids_Airy_Modified ==
    [cls |-> "ellipsoids.AiryModified", proj4 |-> None,
     ogc_wkt |-> <<"A","i","r","y","_","M","o","d","i","f","i","e","d">>, esri_wkt |-> <<"A","i","r","y","_","M","o","d","i","f","i","e","d","_","1","8","4","9">>,
     semimaj_ax |-> PyFloat(6377340, <<1, 8, 9>>),
     inv_flat |-> PyFloat(299, <<3, 2, 4, 9>>)]

\* the sentinel: no identifier, and no default values to fall back on
ellipsoids_Unknown ==
    [cls |-> "ellipsoids.Unknown", proj4 |-> PyString(<< >>),
     ogc_wkt |-> <<"U","n","k","n","o","w","n">>, esri_wkt |-> <<"U","n","k","n","o","w","n">>,
     semimaj_ax |-> None, inv_flat |-> None]

datums_WGS84 ==
    [cls |-> "datums.WGS84", proj4 |-> PyString(<<"W","G","S","8","4">>),
     ogc_wkt |-> <<"W","G","S","_","1","9","8","4">>, esri_wkt |-> <<"D","_","W","G","S","_","1","9","8","4">>]

\* an entry PROJ has no identifier for
datums_ETRS89 ==
    [cls |-> "datums.ETRS89", proj4 |-> PyString(<< >>),
     ogc_wkt |-> <<"E","T","R","S","8","9">>, esri_wkt |-> <<"D","_","E","T","R","S","_","1","9","8","9">>]

datums_Unknown ==
    [cls |-> "datums.Unknown", proj4 |-> PyString(<< >>),
     ogc_wkt |-> <<"U","n","k","n","o","w","n">>, esri_wkt |-> <<"D","_","U","n","k","n","o","w","n">>]

directions_East ==
    [cls |-> "directions.East", proj4 |-> <<"e">>, ogc_wkt |-> <<"E","A","S","T">>, esri_wkt |-> <<"E","A","S","T">>]

directions_North ==
    [cls |-> "directions.North", proj4 |-> <<"n">>, ogc_wkt |-> <<"N","O","R","T","H">>, esri_wkt |-> <<"N","O","R","T","H">>]

directions_West ==
    [cls |-> "directions.West", proj4 |-> <<"w">>, ogc_wkt |-> <<"W","E","S","T">>, esri_wkt |-> <<"W","E","S","T">>]

directions_South ==
    [cls |-> "directions.South", proj4 |-> <<"s">>, ogc_wkt |-> <<"S","O","U","T","H">>, esri_wkt |-> <<"S","O","U","T","H">>]

\* a pair of directions
PyTuple(a, b) == [cls |-> "tuple", items |-> <<a, b>>]

projections_Mercator ==
    [cls |-> "projections.Mercator", proj4 |-> <<"m","e","r","c">>,
     ogc_wkt |-> <<"M","e","r","c","a","t","o","r","_","1","S","P">>, esri_wkt |-> <<"M","e","r","c","a","t","o","r">>]

\* a parameter object, known to the containers only by its three renders
DatumShift ==
    [cls |-> "DatumShift", proj4 |-> <<"+","t","o","w","g","s","8","4","=","0",",","0",",","0">>,
     ogc_wkt |-> <<"T","O","W","G","S","8","4","[","0",","," ","0",","," ","0","]">>, esri_wkt |-> <<"T","O","W","G","S","8","4","[","0",","," ","0",","," ","0","]">>]

PrimeMeridian ==
    [cls |-> "PrimeMeridian", proj4 |-> <<"+","p","m","=","0">>,
     ogc_wkt |-> <<"P","R","I","M","E","M","[","\"","G","r","e","e","n","w","i","c","h","\"",","," ","0","]">>, esri_wkt |-> <<"P","R","I","M","E","M","[","\"","G","r","e","e","n","w","i","c","h","\"",","," ","0","]">>]

AngularUnit ==
    [cls |-> "AngularUnit", proj4 |-> <<"+","t","o","_","m","e","t","e","r","=","1">>,
     ogc_wkt |-> <<"U","N","I","T","[","\"","d","e","g","r","e","e","\"",","," ","0",".","0","1","7","4","]">>, esri_wkt |-> <<"U","N","I","T","[","\"","D","e","g","r","e","e","\"",","," ","0",".","0","1","7","4","]">>]

LinearUnit ==
    [cls |-> "Unit", proj4 |-> <<"+","u","n","i","t","s","=","m">>,
     ogc_wkt |-> <<"U","N","I","T","[","\"","M","e","t","e","r","s","\"",","," ","1","]">>, esri_wkt |-> <<"U","N","I","T","[","\"","M","e","t","e","r","\"",","," ","1","]">>]

LatitudeOrigin ==
    [cls |-> "LatitudeOrigin", proj4 |-> <<"+","l","a","t","_","0","=","0">>,
     ogc_wkt |-> <<"P","A","R","A","M","E","T","E","R","[","\"","l","a","t","i","t","u","d","e","_","o","f","_","o","r","i","g","i","n","\"",","," ","0","]">>,
     esri_wkt |-> <<"P","A","R","A","M","E","T","E","R","[","\"","L","a","t","i","t","u","d","e","_","O","f","_","O","r","i","g","i","n","\"",","," ","0","]">>]

CentralMeridian ==
    [cls |-> "CentralMeridian", proj4 |-> <<"+","l","o","n","_","0","=","9">>,
     ogc_wkt |-> <<"P","A","R","A","M","E","T","E","R","[","\"","c","e","n","t","r","a","l","_","m","e","r","i","d","i","a","n","\"",","," ","9","]">>,
     esri_wkt |-> <<"P","A","R","A","M","E","T","E","R","[","\"","C","e","n","t","r","a","l","_","M","e","r","i","d","i","a","n","\"",","," ","9","]">>]

\* param.to_proj4(), param.to_ogc_wkt(), param.to_esri_wkt()
Param_to_proj4(param) == param.proj4

Param_to_ogc_wkt(param) == param.ogc_wkt

Param_to_esri_wkt(param) == param.esri_wkt

(***************************************************************************)
(* Ellipsoid                                                               *)
(***************************************************************************)
Ellipsoid__init__(name, semimaj_ax, inv_flat) ==
    [cls |-> "Ellipsoid", name |-> name,
     semimaj_ax |-> IF PyEqNone(semimaj_ax) THEN name.semimaj_ax ELSE semimaj_ax,
     inv_flat |-> IF PyEqNone(inv_flat) THEN name.inv_flat ELSE inv_flat]

Ellipsoid_to_proj4_unnamed_only(self) ==
    IF self.name.cls = "ellipsoids.Unknown"
    THEN <<"+","a","=">> \o PyStr(self.semimaj_ax) \o <<" ","+","f","=">> \o PyStr(self.inv_flat)
    ELSE <<"+","e","l","l","p","s","=">> \o PyStr(self.name.proj4) \o <<" ","+","a","=">> \o PyStr(self.semimaj_ax)
             \o <<" ","+","f","=">> \o PyStr(self.inv_flat)

Ellipsoid_to_proj4(self) ==
    IF self.name.cls = "ellipsoids.Unknown"
    THEN <<"+","a","=">> \o PyStr(self.semimaj_ax) \o <<" ","+","f","=">> \o PyStr(self.inv_flat)
    ELSE IF ~PyTruthy(self.name.proj4)
    THEN <<"+","a","=">> \o PyStr(self.semimaj_ax) \o <<" ","+","f","=">> \o PyStr(self.inv_flat)
    ELSE <<"+","e","l","l","p","s","=">> \o PyStr(self.name.proj4) \o <<" ","+","a","=">> \o PyStr(self.semimaj_ax)
             \o <<" ","+","f","=">> \o PyStr(self.inv_flat)

Ellipsoid_to_ogc_wkt(self) ==
    <<"S","P","H","E","R","O","I","D","[","\"">> \o self.name.ogc_wkt \o <<"\"",","," ">> \o PyStr(self.semimaj_ax)
        \o <<","," ">> \o PyStr(self.inv_flat) \o <<"]">>

Ellipsoid_to_esri_wkt(self) ==
    <<"S","P","H","E","R","O","I","D","[","\"">> \o self.name.esri_wkt \o <<"\"",","," ">> \o PyStr(self.semimaj_ax)
        \o <<","," ">> \o PyStr(self.inv_flat) \o <<"]">>

(***************************************************************************)
(* Datum                                                                   *)
(***************************************************************************)
Datum__init__(name, ellipsoid, datumshift) ==
    [cls |-> "Datum", name |-> name, ellips |-> ellipsoid, datumshift |-> datumshift]

\* the name is looked at before the shift
Datum_to_proj4_name_first(self) ==
    IF self.name.cls = "datums.Unknown"
    THEN Ellipsoid_to_proj4(self.ellips)
    ELSE IF PyTruthy(self.name.proj4)
    THEN <<"+","d","a","t","u","m","=">> \o PyStr(self.name.proj4) \o <<" ">> \o Ellipsoid_to_proj4(self.ellips)
    ELSE IF PyTruthy(self.datumshift)
    THEN Ellipsoid_to_proj4(self.ellips) \o <<" ">> \o self.datumshift.proj4
    ELSE Ellipsoid_to_proj4(self.ellips)

Datum_to_proj4(self) ==
    IF PyTruthy(self.datumshift)
    THEN Ellipsoid_to_proj4(self.ellips) \o <<" ">> \o self.datumshift.proj4
    ELSE IF self.name.cls = "datums.Unknown"
    THEN Ellipsoid_to_proj4(self.ellips)
    ELSE IF ~PyTruthy(self.name.proj4)
    THEN Ellipsoid_to_proj4(self.ellips)
    ELSE <<"+","d","a","t","u","m","=">> \o PyStr(self.name.proj4) \o <<" ">> \o Ellipsoid_to_proj4(self.ellips)

Datum_to_ogc_wkt(self) ==
    IF PyTruthy(self.datumshift)
    THEN <<"D","A","T","U","M","[","\"">> \o self.name.ogc_wkt \o <<"\"",","," ">> \o Ellipsoid_to_ogc_wkt(self.ellips)
             \o <<","," ">> \o self.datumshift.ogc_wkt \o <<"]">>
    ELSE <<"D","A","T","U","M","[","\"">> \o self.name.ogc_wkt \o <<"\"",","," ">> \o Ellipsoid_to_ogc_wkt(self.ellips) \o <<"]">>

Datum_to_esri_wkt(self) ==
    IF PyTruthy(self.datumshift)
    THEN <<"D","A","T","U","M","[","\"">> \o self.name.esri_wkt \o <<"\"",","," ">> \o Ellipsoid_to_esri_wkt(self.ellips)
             \o <<","," ">> \o self.datumshift.esri_wkt \o <<"]">>
    ELSE <<"D","A","T","U","M","[","\"">> \o self.name.esri_wkt \o <<"\"",","," ">> \o Ellipsoid_to_esri_wkt(self.ellips) \o <<"]">>

(***************************************************************************)
(* GeogCS                                                                  *)
(***************************************************************************)
GeogCS__init__(name, datum_, prime_mer, angunit, twin_ax) ==
    [cls |-> "GeogCS", name |-> name, datum |-> datum_, prime_mer |-> prime_mer,
     angunit |-> angunit,
     twin_ax |-> IF PyEqNone(twin_ax)
                 THEN PyTuple(directions_East, directions_North)
                 ELSE twin_ax]

GeogCS_to_proj4(self) ==
    Datum_to_proj4(self.datum) \o <<" ">> \o self.prime_mer.proj4 \o <<" ">> \o self.angunit.proj4

GeogCS_to_ogc_wkt(self) ==
    <<"G","E","O","G","C","S","[","\"">> \o self.name \o <<"\"",","," ">> \o Datum_to_ogc_wkt(self.datum) \o <<","," ">>
        \o self.prime_mer.ogc_wkt \o <<","," ">> \o self.angunit.ogc_wkt
        \o <<","," ","A","X","I","S","[","\"","L","o","n","\"",","," ">> \o self.twin_ax.items[1].ogc_wkt
        \o <<"]",","," ","A","X","I","S","[","\"","L","a","t","\"",","," ">> \o self.twin_ax.items[2].ogc_wkt \o <<"]","]">>

GeogCS_to_esri_wkt(self) ==
    <<"G","E","O","G","C","S","[","\"">> \o self.name \o <<"\"",","," ">> \o Datum_to_esri_wkt(self.datum) \o <<","," ">>
        \o self.prime_mer.esri_wkt \o <<","," ">> \o self.angunit.esri_wkt
        \o <<","," ","A","X","I","S","[","\"","L","o","n","\"",","," ">> \o self.twin_ax.items[1].esri_wkt
        \o <<"]",","," ","A","X","I","S","[","\"","L","a","t","\"",","," ">> \o self.twin_ax.items[2].esri_wkt \o <<"]","]">>

(***************************************************************************)
(* Projection                                                              *)
(***************************************************************************)
Projection__init__(value) == [cls |-> "Projection", value |-> value]

Projection_to_proj4(self) == <<"+","p","r","o","j","=">> \o self.value.proj4

Projection_to_ogc_wkt(self) == <<"P","R","O","J","E","C","T","I","O","N","[","\"">> \o self.value.ogc_wkt \o <<"\"","]">>

Projection_to_esri_wkt(self) == <<"P","R","O","J","E","C","T","I","O","N","[","\"">> \o self.value.esri_wkt \o <<"\"","]">>

(***************************************************************************)
(* ProjCS                                                                  *)
(***************************************************************************)
\* the default axes overwrite the pair that was handed in
ProjCS__init__always_default(name, geogcs_, proj, params, unit, twin_ax) ==
    [cls |-> "ProjCS", name |-> name, geogcs |-> geogcs_, proj |-> proj,
     params |-> params, unit |-> unit,
     twin_ax |-> PyTuple(directions_East, directions_North)]

ProjCS__init__(name, geogcs_, proj, params, unit, twin_ax) ==
    [cls |-> "ProjCS", name |-> name, geogcs |-> geogcs_, proj |-> proj,
     params |-> params, unit |-> unit,
     twin_ax |-> IF PyEqNone(twin_ax)
                 THEN PyTuple(directions_East, directions_North)
                 ELSE twin_ax]

ProjCS_to_proj4(self) ==
    LET string1 == Projection_to_proj4(self.proj) \o <<" ">> \o GeogCS_to_proj4(self.geogcs) \o <<" ">>
        string2 == string1 \o Join(<<" ">>, [i \in 1..Len(self.params) |-> Param_to_proj4(self.params[i])])
        string3 == string2 \o <<" ">> \o self.unit.proj4
        string4 == string3 \o <<" ","+","a","x","i","s","=">> \o self.twin_ax.items[1].proj4
                       \o self.twin_ax.items[2].proj4 \o <<"u">>
    IN  string4

\* the parameters are walked from the last to the first
ProjCS_to_ogc_wkt_backwards(self) ==
    LET n == Len(self.params)
        string1 == <<"P","R","O","J","C","S","[","\"">> \o self.name \o <<"\"",","," ">> \o GeogCS_to_ogc_wkt(self.geogcs)
                       \o <<","," ">> \o Projection_to_ogc_wkt(self.proj) \o <<","," ">>
        string2 == string1 \o Join(<<","," ">>, [i \in 1..n |-> Param_to_ogc_wkt(self.params[n + 1 - i])])
        string3 == string2 \o <<","," ">> \o self.unit.ogc_wkt
        string4 == string3 \o <<","," ","A","X","I","S","[","\"","X","\"",","," ">> \o self.twin_ax.items[1].ogc_wkt
                       \o <<"]",","," ","A","X","I","S","[","\"","Y","\"",","," ">> \o self.twin_ax.items[2].ogc_wkt \o <<"]","]">>
    IN  string4

ProjCS_to_ogc_wkt(self) ==
    LET string1 == <<"P","R","O","J","C","S","[","\"">> \o self.name \o <<"\"",","," ">> \o GeogCS_to_ogc_wkt(self.geogcs)
                       \o <<","," ">> \o Projection_to_ogc_wkt(self.proj) \o <<","," ">>
        string2 == string1 \o Join(<<","," ">>, [i \in 1..Len(self.params) |-> Param_to_ogc_wkt(self.params[i])])
        string3 == string2 \o <<","," ">> \o self.unit.ogc_wkt
        string4 == string3 \o <<","," ","A","X","I","S","[","\"","X","\"",","," ">> \o self.twin_ax.items[1].ogc_wkt
                       \o <<"]",","," ","A","X","I","S","[","\"","Y","\"",","," ">> \o self.twin_ax.items[2].ogc_wkt \o <<"]","]">>
    IN  string4

ProjCS_to_esri_wkt(self) ==
    LET string1 == <<"P","R","O","J","C","S","[","\"">> \o self.name \o <<"\"",","," ">> \o GeogCS_to_esri_wkt(self.geogcs)
                       \o <<","," ">> \o Projection_to_esri_wkt(self.proj) \o <<","," ">>
        string2 == string1 \o Join(<<","," ">>, [i \in 1..Len(self.params) |-> Param_to_esri_wkt(self.params[i])])
        string3 == string2 \o <<","," ">> \o self.unit.esri_wkt
        string4 == string3 \o <<","," ","A","X","I","S","[","\"","X","\"",","," ">> \o self.twin_ax.items[1].esri_wkt
                       \o <<"]",","," ","A","X","I","S","[","\"","Y","\"",","," ">> \o self.twin_ax.items[2].esri_wkt \o <<"]","]">>
    IN  string4

(***************************************************************************)
(* CRS                                                                     *)
(***************************************************************************)
CRS__init__(toplevel) == [cls |-> "CRS", toplevel |-> toplevel]

\* the framing of the two roots is swapped
CRS_to_proj4_swapped(self) ==
    IF self.toplevel.cls = "ProjCS"
    THEN PyString(<<"+","p","r","o","j","=","l","o","n","g","l","a","t"," ">> \o ProjCS_to_proj4(self.toplevel) \o <<" ","+","n","o","_","d","e","f","s">>)
    ELSE IF self.toplevel.cls = "GeogCS"
    THEN PyString(GeogCS_to_proj4(self.toplevel) \o <<" ","+","n","o","_","d","e","f","s">>)
    ELSE None

\* a method that runs off its end returns None
CRS_to_proj4(self) ==
    IF self.toplevel.cls = "ProjCS"
    THEN PyString(ProjCS_to_proj4(self.toplevel) \o <<" ","+","n","o","_","d","e","f","s">>)
    ELSE IF self.toplevel.cls = "GeogCS"
    THEN PyString(<<"+","p","r","o","j","=","l","o","n","g","l","a","t"," ">> \o GeogCS_to_proj4(self.toplevel) \o <<" ","+","n","o","_","d","e","f","s">>)
    ELSE None

\* self.toplevel.to_ogc_wkt(), whatever self.toplevel is
CRS_to_ogc_wkt(self) ==
    CASE self.toplevel.cls = "ProjCS" -> PyString(ProjCS_to_ogc_wkt(self.toplevel))
      [] self.toplevel.cls = "GeogCS" -> PyString(GeogCS_to_ogc_wkt(self.toplevel))
      [] self.toplevel.cls = "Datum" -> PyString(Datum_to_ogc_wkt(self.toplevel))
      [] OTHER -> Raise("AttributeError")

CRS_to_esri_wkt(self) ==
    CASE self.toplevel.cls = "ProjCS" -> PyString(ProjCS_to_esri_wkt(self.toplevel))
      [] self.toplevel.cls = "GeogCS" -> PyString(GeogCS_to_esri_wkt(self.toplevel))
      [] self.toplevel.cls = "Datum" -> PyString(Datum_to_esri_wkt(self.toplevel))
      [] OTHER -> Raise("AttributeError")

(***************************************************************************)
(* The values the constructors are called with.                            *)
(***************************************************************************)
EllipsoidNames == {ellipsoids_WGS84, ellipsoids_Airy_Modified, ellipsoids_Unknown}

SemimajArgs == {None, PyInt(0), PyFloat(6378137, <<0>>)}

InvFlatArgs == {None, PyInt(0), PyFloat(298, <<2, 5, 7, 2, 2, 3, 5, 6, 3>>)}

DatumNames == {datums_WGS84, datums_ETRS89, datums_Unknown}

DatumShifts == {None, DatumShift}

\* the ellipsoids and datums the coordinate systems are built over
BaseEllipsoidArgs ==
    {<<ellipsoids_WGS84, None, None>>,
     <<ellipsoids_Unknown, PyFloat(6378137, <<0>>), PyFloat(298, <<2, 5, 7, 2, 2, 3, 5, 6, 3>>)>>}

BaseDatumArgs ==
    {<<datums_WGS84, None>>, <<datums_WGS84, DatumShift>>, <<datums_Unknown, None>>}

GeogCSNames == {<<"G","C","S","_","W","G","S","_","1","9","8","4">>, <<"+","p","r","o","j","=","u","t","m">>}

ProjCSNames == {<<"W","o","r","l","d","_","M","e","r","c","a","t","o","r">>, <<"+","z","o","n","e","=","3","2">>}

TwinAxArgs == {None, PyTuple(directions_West, directions_South)}

Params == {LatitudeOrigin, CentralMeridian}

ParamLists == UNION {[1..n -> Params] : n \in 0..MaxParams}

Grammars == {"to_proj4", "to_ogc_wkt", "to_esri_wkt"}

\* no call has returned yet
NoCall == [on |-> "", op |-> "", val |-> None]

NotCalled == [cls |-> "NotCalled"]

(***************************************************************************)
(* Construction, bottom-up: each action is one constructor call.           *)
(***************************************************************************)
Init ==
    /\ ellips = None
    /\ datum = None
    /\ geogcs = None
    /\ projcs = None
    /\ crs = None
    /\ built = None
    /\ ret = NoCall
    /\ first = [g \in Grammars |-> NotCalled]
    /\ twin_given = [GeogCS |-> None, ProjCS |-> None]

ConstructEllipsoid(name, semimaj_ax, inv_flat) ==
    /\ ellips = None
    /\ ellips' = Ellipsoid__init__(name, semimaj_ax, inv_flat)
    /\ UNCHANGED <<datum, geogcs, projcs, crs, ret, first, built, twin_given>>

ConstructDatum(name, datumshift) ==
    /\ ellips # None
    /\ datum = None
    /\ datum' = Datum__init__(name, ellips, datumshift)
    /\ UNCHANGED <<ellips, geogcs, projcs, crs, ret, first, built, twin_given>>

ConstructGeogCS(name, twin_ax) ==
    /\ datum # None
    /\ geogcs = None
    /\ geogcs' = GeogCS__init__(name, datum, PrimeMeridian, AngularUnit, twin_ax)
    /\ twin_given' = [twin_given EXCEPT !.GeogCS = twin_ax]
    /\ UNCHANGED <<ellips, datum, projcs, crs, ret, first, built>>

ConstructProjCS(name, params, twin_ax) ==
    /\ geogcs # None
    /\ projcs = None
    /\ crs = None
    /\ projcs' = ProjCS__init__(name, geogcs, Projection__init__(projections_Mercator),
                                params, LinearUnit, twin_ax)
    /\ twin_given' = [twin_given EXCEPT !.ProjCS = twin_ax]
    /\ UNCHANGED <<ellips, datum, geogcs, crs, ret, first, built>>

\* nothing is checked about toplevel: it may be None or any object at hand
ToplevelArgs == {None, datum, geogcs, projcs}

ConstructCRS(toplevel) ==
    /\ geogcs # None
    /\ crs = None
    /\ crs' = CRS__init__(toplevel)
    /\ built' = crs'
    /\ UNCHANGED <<ellips, datum, geogcs, projcs, ret, first, twin_given>>

(***************************************************************************)
(* Serializer calls: the call returns and leaves every object as it was.   *)
(***************************************************************************)
Returns(on, op, val) ==
    /\ ret' = [on |-> on, op |-> op, val |-> val]
    /\ UNCHANGED <<ellips, datum, geogcs, projcs, crs, first, built, twin_given>>

CallEllipsoid_to_proj4 ==
    /\ ellips # None
    /\ Returns("Ellipsoid", "to_proj4", PyString(Ellipsoid_to_proj4(ellips)))

CallEllipsoid_to_ogc_wkt ==
    /\ ellips # None
    /\ Returns("Ellipsoid", "to_ogc_wkt", PyString(Ellipsoid_to_ogc_wkt(ellips)))

CallEllipsoid_to_esri_wkt ==
    /\ ellips # None
    /\ Returns("Ellipsoid", "to_esri_wkt", PyString(Ellipsoid_to_esri_wkt(ellips)))

CallDatum_to_proj4 ==
    /\ datum # None
    /\ Returns("Datum", "to_proj4", PyString(Datum_to_proj4(datum)))

CallDatum_to_ogc_wkt ==
    /\ datum # None
    /\ Returns("Datum", "to_ogc_wkt", PyString(Datum_to_ogc_wkt(datum)))

CallDatum_to_esri_wkt ==
    /\ datum # None
    /\ Returns("Datum", "to_esri_wkt", PyString(Datum_to_esri_wkt(datum)))

CallGeogCS_to_proj4 ==
    /\ geogcs # None
    /\ Returns("GeogCS", "to_proj4", PyString(GeogCS_to_proj4(geogcs)))

CallGeogCS_to_ogc_wkt ==
    /\ geogcs # None
    /\ Returns("GeogCS", "to_ogc_wkt", PyString(GeogCS_to_ogc_wkt(geogcs)))

CallGeogCS_to_esri_wkt ==
    /\ geogcs # None
    /\ Returns("GeogCS", "to_esri_wkt", PyString(GeogCS_to_esri_wkt(geogcs)))

CallProjCS_to_proj4 ==
    /\ projcs # None
    /\ Returns("ProjCS", "to_proj4", PyString(ProjCS_to_proj4(projcs)))

CallProjCS_to_ogc_wkt ==
    /\ projcs # None
    /\ Returns("ProjCS", "to_ogc_wkt", PyString(ProjCS_to_ogc_wkt(projcs)))

CallProjCS_to_esri_wkt ==
    /\ projcs # None
    /\ Returns("ProjCS", "to_esri_wkt", PyString(ProjCS_to_esri_wkt(projcs)))

\* a call on the CRS; first keeps what each operation returned the first time
CRSReturns(op, val) ==
    /\ ret' = [on |-> "CRS", op |-> op, val |-> val]
    /\ first' = IF first[op] = NotCalled THEN [first EXCEPT ![op] = val] ELSE first

\* the walk uses up the parameter list, as over a one-shot sequence
CallCRS_to_proj4_consuming ==
    /\ crs # None
    /\ CRSReturns("to_proj4", CRS_to_proj4(crs))
    /\ crs' = IF crs.toplevel.cls = "ProjCS"
               THEN [crs EXCEPT !.toplevel.params = << >>]
               ELSE [crs EXCEPT !.toplevel = None]
    /\ UNCHANGED <<ellips, datum, geogcs, projcs, built, twin_given>>

CallCRS_to_proj4 ==
    /\ crs # None
    /\ CRSReturns("to_proj4", CRS_to_proj4(crs))
    /\ UNCHANGED <<ellips, datum, geogcs, projcs, crs, built, twin_given>>

CallCRS_to_ogc_wkt ==
    /\ crs # None
    /\ CRSReturns("to_ogc_wkt", CRS_to_ogc_wkt(crs))
    /\ UNCHANGED <<ellips, datum, geogcs, projcs, crs, built, twin_given>>

CallCRS_to_esri_wkt ==
    /\ crs # None
    /\ CRSReturns("to_esri_wkt", CRS_to_esri_wkt(crs))
    /\ UNCHANGED <<ellips, datum, geogcs, projcs, crs, built, twin_given>>

(***************************************************************************)
(* Specifications.                                                         *)
(***************************************************************************)
\* Ellipsoid and Datum over every name and argument combination
NextLeaf ==
    \/ \E name \in EllipsoidNames, a \in SemimajArgs, f \in InvFlatArgs :
           ConstructEllipsoid(name, a, f)
    \/ \E name \in DatumNames, shift \in DatumShifts : ConstructDatum(name, shift)
    \/ CallEllipsoid_to_proj4
    \/ CallEllipsoid_to_ogc_wkt
    \/ CallEllipsoid_to_esri_wkt
    \/ CallDatum_to_proj4
    \/ CallDatum_to_ogc_wkt
    \/ CallDatum_to_esri_wkt

SpecLeaf == Init /\ [][NextLeaf]_vars

BuildBase ==
    \/ \E e \in BaseEllipsoidArgs : ConstructEllipsoid(e[1], e[2], e[3])
    \/ \E d \in BaseDatumArgs : ConstructDatum(d[1], d[2])

BuildCS ==
    \/ \E name \in GeogCSNames, twin_ax \in TwinAxArgs : ConstructGeogCS(name, twin_ax)
    \/ \E name \in ProjCSNames, params \in ParamLists, twin_ax \in TwinAxArgs :
           ConstructProjCS(name, params, twin_ax)

\* GeogCS and ProjCS
NextCS ==
    \/ BuildBase
    \/ BuildCS
    \/ CallGeogCS_to_proj4
    \/ CallGeogCS_to_ogc_wkt
    \/ CallGeogCS_to_esri_wkt
    \/ CallProjCS_to_proj4
    \/ CallProjCS_to_ogc_wkt
    \/ CallProjCS_to_esri_wkt

SpecCS == Init /\ [][NextCS]_vars

BuildCRS == \E toplevel \in ToplevelArgs : ConstructCRS(toplevel)

\* the whole tree under a CRS
Next ==
    \/ BuildBase
    \/ BuildCS
    \/ BuildCRS
    \/ CallCRS_to_proj4
    \/ CallCRS_to_ogc_wkt
    \/ CallCRS_to_esri_wkt

Spec == Init /\ [][Next]_vars

(***************************************************************************)
(* Looking inside rendered text.                                           *)
(***************************************************************************)
MatchAt(s, i, p) == i + Len(p) - 1 <= Len(s) /\ SubSeq(s, i, i + Len(p) - 1) = p

StartsWith(s, p) == MatchAt(s, 1, p)

EndsWith(s, p) == Len(p) <= Len(s) /\ MatchAt(s, Len(s) - Len(p) + 1, p)

Contains(s, p) == \E i \in 1..Len(s) : MatchAt(s, i, p)

Letters ==
    {"a", "b", "c", "d", "e", "f", "g", "h", "i", "j", "k", "l", "m",
     "n", "o", "p", "q", "r", "s", "t", "u", "v", "w", "x", "y", "z"}

\* a PROJ token: a '+' that opens a word
HasProjToken(s) ==
    \E i \in 1..(Len(s) - 1) :
        /\ s[i] = "+"
        /\ s[i + 1] \in Letters
        /\ (i = 1 \/ s[i - 1] \in {" ", "\""})

HasBracket(s) == \E i \in 1..Len(s) : s[i] \in {"[", "]"}

IsCall(on, op) == ret.on = on /\ ret.op = op

\* the positions of s where the render of a parameter starts
ParamStarts(s, g) == {i \in 1..Len(s) : \E p \in Params : MatchAt(s, i, p[g])}

\* the parameters whose renders s carries, from left to right
ParamsRendered(s, g) ==
    LET starts == ParamStarts(s, g)
        at(k) == CHOOSE i \in starts : Cardinality({j \in starts : j < i}) = k - 1
    IN  [k \in 1..Cardinality(starts) |-> CHOOSE p \in Params : MatchAt(s, at(k), p[g])]

Reverse(seq) == [i \in 1..Len(seq) |-> seq[Len(seq) + 1 - i]]

\* the field of a parameter that holds its render in grammar op
FieldOf(op) ==
    CASE op = "to_proj4" -> "proj4"
      [] op = "to_ogc_wkt" -> "ogc_wkt"
      [] op = "to_esri_wkt" -> "esri_wkt"

ProjCS_render(self, op) ==
    CASE op = "to_proj4" -> ProjCS_to_proj4(self)
      [] op = "to_ogc_wkt" -> ProjCS_to_ogc_wkt(self)
      [] op = "to_esri_wkt" -> ProjCS_to_esri_wkt(self)

(***************************************************************************)
(* Claims.                                                                 *)
(***************************************************************************)

\* C1: CRS.to_proj4 returns <ProjCS.to_proj4()> + ' +no_defs' for a ProjCS
\* root and '+proj=longlat ' + <GeogCS.to_proj4()> + ' +no_defs' for a GeogCS
\* root; the suffix is there in both cases, the prefix only for GeogCS.
C1_Framing ==
    (IsCall("CRS", "to_proj4") /\ crs.toplevel.cls \in {"ProjCS", "GeogCS"}) =>
        /\ ret.val.cls = "str"
        /\ EndsWith(ret.val.s, <<" ","+","n","o","_","d","e","f","s">>)
        /\ crs.toplevel.cls = "ProjCS" =>
               /\ ret.val.s = ProjCS_to_proj4(projcs) \o <<" ","+","n","o","_","d","e","f","s">>
               /\ ~StartsWith(ret.val.s, <<"+","p","r","o","j","=","l","o","n","g","l","a","t"," ">>)
        /\ crs.toplevel.cls = "GeogCS" =>
               ret.val.s = <<"+","p","r","o","j","=","l","o","n","g","l","a","t"," ">> \o GeogCS_to_proj4(geogcs) \o <<" ","+","n","o","_","d","e","f","s">>

C1_Witness ==
    /\ IsCall("CRS", "to_proj4")
    /\ crs.toplevel.cls = "GeogCS"
    /\ StartsWith(ret.val.s, <<"+","p","r","o","j","=","l","o","n","g","l","a","t"," ","+","d","a","t","u","m","=","W","G","S","8","4"," ">>)

\* C2: a CRS always holds a GeogCS or a ProjCS as its root, so that
\* to_proj4 never returns an absent value instead of a string ending in
\* ' +no_defs'.
C2_RootPresent ==
    /\ crs # None => crs.toplevel.cls \in {"GeogCS", "ProjCS"}
    /\ IsCall("CRS", "to_proj4") =>
           (ret.val.cls = "str" /\ EndsWith(ret.val.s, <<" ","+","n","o","_","d","e","f","s">>))

\* C3: Datum.to_proj4 picks, in this order: shift present -> ellipsoid and
\* shift; name Unknown -> ellipsoid only; name without PROJ identifier ->
\* ellipsoid only; otherwise '+datum=<id> ' and ellipsoid.  With a shift no
\* '+datum=' token is emitted.
C3_DatumPriority ==
    IsCall("Datum", "to_proj4") =>
        LET e == Ellipsoid_to_proj4(ellips)
            d == ret.val.s
        IN  /\ datum.datumshift # None =>
                   (d = e \o <<" ">> \o <<"+","t","o","w","g","s","8","4","=","0",",","0",",","0">> /\ ~Contains(d, <<"+","d","a","t","u","m","=">>))
            /\ (datum.datumshift = None /\ datum.name = datums_Unknown) => d = e
            /\ (datum.datumshift = None /\ datum.name = datums_ETRS89) => d = e
            /\ (datum.datumshift = None /\ datum.name = datums_WGS84) =>
                   d = <<"+","d","a","t","u","m","=","W","G","S","8","4"," ">> \o e

C3_Witness ==
    /\ IsCall("Datum", "to_proj4")
    /\ datum.datumshift # None
    /\ datum.name = datums_WGS84
    /\ EndsWith(ret.val.s, <<" ","+","t","o","w","g","s","8","4","=","0",",","0",",","0">>)

\* C4: after Ellipsoid construction semimaj_ax and inv_flat are both
\* numbers, never absent, for every name reference and every combination of
\* supplied and omitted arguments.
C4_ValuesConcrete ==
    ellips # None =>
        /\ ellips.semimaj_ax.cls \in {"int", "float"}
        /\ ellips.inv_flat.cls \in {"int", "float"}

\* C5: Ellipsoid.to_proj4 is '+a=<semimaj_ax> +f=<inv_flat>' alone when the
\* name is Unknown or has no PROJ identifier, and
\* '+ellps=<id> +a=<semimaj_ax> +f=<inv_flat>' otherwise.
C5_EllipsoidProj4 ==
    IsCall("Ellipsoid", "to_proj4") =>
        LET raw == <<"+","a","=">> \o PyStr(ellips.semimaj_ax) \o <<" ","+","f","=">> \o PyStr(ellips.inv_flat)
        IN  /\ Contains(ret.val.s, <<"+","a","=">>) /\ Contains(ret.val.s, <<" ","+","f","=">>)
            /\ ellips.name \in {ellipsoids_Unknown, ellipsoids_Airy_Modified} =>
                   (ret.val.s = raw /\ ~Contains(ret.val.s, <<"+","e","l","l","p","s","=">>))
            /\ ellips.name = ellipsoids_WGS84 => ret.val.s = <<"+","e","l","l","p","s","=","W","G","S","8","4"," ">> \o raw

C5_Witness ==
    /\ IsCall("Ellipsoid", "to_proj4")
    /\ ellips.name = ellipsoids_Airy_Modified
    /\ ret.val.s = <<"+","a","=","6","3","7","8","1","3","7",".","0"," ","+","f","=","2","9","8",".","2","5","7","2","2","3","5","6","3">>

\* C6: the three ProjCS serializers carry the parameter renders in the
\* order of construction, each once, and a ProjCS built with the reversed
\* list carries them in the reversed order.
C6_ParamOrder ==
    (ret.on = "ProjCS" /\ ret.op \in Grammars) =>
        LET g == FieldOf(ret.op)
            reversed == ProjCS__init__(projcs.name, projcs.geogcs, projcs.proj,
                                       Reverse(projcs.params), projcs.unit, projcs.twin_ax)
        IN  /\ ParamsRendered(ret.val.s, g) = projcs.params
            /\ ParamsRendered(ProjCS_render(reversed, ret.op), g) = Reverse(projcs.params)

C6_Witness ==
    /\ IsCall("ProjCS", "to_ogc_wkt")
    /\ projcs.params = <<CentralMeridian, LatitudeOrigin>>
    /\ Contains(ret.val.s, <<"P","A","R","A","M","E","T","E","R","[","\"","c","e","n","t","r","a","l","_","m","e","r","i","d","i","a","n","\"",","," ","9","]",","," ","P","A","R","A","M","E","T","E","R","[","\"","l","a","t","i","t","u","d","e","_","o","f","_","o","r","i","g","i","n","\"",","," ","0","]">>)

\* C7: to_proj4 output carries no WKT bracket and to_ogc_wkt / to_esri_wkt
\* output carries no '+'-prefixed PROJ token, whatever names and identifiers
\* are interpolated.
C7_GrammarIsolation ==
    (ret.on = "CRS" /\ ret.val.cls = "str") =>
        /\ ret.op = "to_proj4" => ~HasBracket(ret.val.s)
        /\ ret.op \in {"to_ogc_wkt", "to_esri_wkt"} => ~HasProjToken(ret.val.s)

\* C8: a GeogCS or ProjCS built without twin_ax has the axes (East, North)
\* in its WKT AXIS clauses and, for ProjCS.to_proj4, in the closing
\* '+axis=enu'; a pair that was handed in is kept.
C8_DefaultAxes ==
    /\ geogcs # None =>
           geogcs.twin_ax = IF twin_given.GeogCS = None
                            THEN PyTuple(directions_East, directions_North)
                            ELSE twin_given.GeogCS
    /\ projcs # None =>
           projcs.twin_ax = IF twin_given.ProjCS = None
                            THEN PyTuple(directions_East, directions_North)
                            ELSE twin_given.ProjCS
    /\ (ret.on = "GeogCS" /\ ret.op \in {"to_ogc_wkt", "to_esri_wkt"}
            /\ twin_given.GeogCS = None) =>
           EndsWith(ret.val.s, <<","," ","A","X","I","S","[","\"","L","o","n","\"",","," ","E","A","S","T","]",","," ","A","X","I","S","[","\"","L","a","t","\"",","," ","N","O","R","T","H","]","]">>)
    /\ (ret.on = "ProjCS" /\ ret.op \in {"to_ogc_wkt", "to_esri_wkt"}
            /\ twin_given.ProjCS = None) =>
           EndsWith(ret.val.s, <<","," ","A","X","I","S","[","\"","X","\"",","," ","E","A","S","T","]",","," ","A","X","I","S","[","\"","Y","\"",","," ","N","O","R","T","H","]","]">>)
    /\ (IsCall("ProjCS", "to_proj4") /\ twin_given.ProjCS = None) =>
           EndsWith(ret.val.s, <<" ","+","a","x","i","s","=","e","n","u">>)
    /\ (IsCall("ProjCS", "to_proj4") /\ twin_given.ProjCS # None) =>
           EndsWith(ret.val.s, <<" ","+","a","x","i","s","=","w","s","u">>)

C8_Witness ==
    /\ IsCall("ProjCS", "to_proj4")
    /\ twin_given.ProjCS = None
    /\ twin_given.GeogCS # None
    /\ EndsWith(ret.val.s, <<" ","+","u","n","i","t","s","=","m"," ","+","a","x","i","s","=","e","n","u">>)

\* C9: the serializers only read: whatever calls were made, the tree is the
\* one that was built and each operation returns what it returned the first
\* time.
C9_ReadOnly ==
    crs # None =>
        /\ crs = built
        /\ crs.toplevel \in {None, datum, geogcs, projcs}
        /\ ret.on = "CRS" => ret.val = first[ret.op]
        /\ \A g \in Grammars : first[g] # NotCalled =>
               first[g] = CASE g = "to_proj4" -> CRS_to_proj4(built)
                            [] g = "to_ogc_wkt" -> CRS_to_ogc_wkt(built)
                            [] g = "to_esri_wkt" -> CRS_to_esri_wkt(built)

C9_Witness ==
    /\ IsCall("CRS", "to_proj4")
    /\ crs.toplevel.cls = "ProjCS"
    /\ Len(crs.toplevel.params) = 2
    /\ first["to_ogc_wkt"] # NotCalled
    /\ first["to_esri_wkt"] # NotCalled

\* C10: for every parameter list, the empty one included, ProjCS.to_proj4
\* has no two consecutive spaces and ProjCS.to_ogc_wkt / to_esri_wkt have no
\* empty field (', , ').
C10_SingleSeparators ==
    /\ IsCall("ProjCS", "to_proj4") => ~Contains(ret.val.s, <<" "," ">>)
    /\ (ret.on = "ProjCS" /\ ret.op \in {"to_ogc_wkt", "to_esri_wkt"}) =>
           ~Contains(ret.val.s, <<","," ",","," ">>)

====
